---- MODULE Spec2Model ----
(***************************************************************************)
(* Model of download.mjs: the resumable download engine (downloadToFile,   *)
(* getRemoteSizeAndRanges, ByteLimit) and the session acquisition          *)
(* (prepareSession, loginWithCredentialsInline, main).                     *)
(*                                                                         *)
(* Bytes of the remote resource are numbered: the byte at offset i (from   *)
(* 0) has the value i+1, so a file holds the right content exactly when    *)
(* it is Bytes(0, n) for its length n.                                     *)
(***************************************************************************)
EXTENDS Integers, Sequences, FiniteSets, TLC

\* ------------------------------------------------------------------ bounds
MaxSize == 3        \* largest remote resource and largest file found on disk
MaxChunk == 2       \* largest chunk the transport delivers
MaxLimit == 2       \* largest sampling limit (--sample-bytes)
MaxCalls == 2       \* download() calls made in a row with the same arguments
MaxUnits == 2       \* most units a course has

\* maxRetries = 3, the default of downloadToFile's parameter
maxRetries == 3

VARIABLES
    \* --- the world: remote resource, server, the two files on disk
    remoteSize,         \* size of the remote resource
    srv,                \* "range": honours Range; "any": honours or ignores it, per request
    final,              \* file at filePath: [ex, data]
    part,               \* file at tmpPath = filePath + '.part'
    \* --- downloadToFile's arguments and locals
    sampleBytes,        \* 0 = full download
    pc,                 \* position inside downloadToFile ("idle" = not running)
    attempt,
    existingFinalSize,
    existingTmpSize,
    remoteInfo,         \* [set, size, acceptRanges]; size 0 = undefined
    resumeOffset,
    req,                \* the content GET in flight: [range, from]
    strm,               \* the pipeline: [flags, lo, hi, pending, opened, seen, hit]
    byteLimitReached,
    \* --- what a caller or an observer of the network sees
    calls,              \* download() calls started
    result,             \* outcome of the current/last call
    net,                \* requests issued by the current/last call: [head, probe, get]
    hist,               \* history of the calls, for the properties
    \* --- session acquisition: the process's inputs and globals
    COOKIE,             \* the override cookie (MK_COOKIE / MK_COOKIE_FILE) or the placeholder
    ACTIVE_COOKIE,      \* the module-level active cookie
    cli,                \* parseCLI's result: [userEmail, userPassword, sessionFile, forceLogin]
    disk,               \* the Session Record file
    valid,              \* the cookies the server takes for an authenticated user
    answers,            \* FALSE: the server accepts connections and never answers
    \* --- prepareSession's and main's locals
    spc,                \* position inside main / prepareSession / loginWithCredentialsInline
    sessionData,        \* the record as read by prepareSession
    prep,               \* prepareSession's result: [core, source]
    login,              \* loginWithCredentialsInline's locals: [store, csrf]
    units,              \* main: units of the course still to visit
    allLinks,           \* main: links collected so far
    exitCode,           \* process exit status (-1: still running)
    obs                 \* what an observer of the run sees, for the properties

dlvars == <<remoteSize, srv, final, part, sampleBytes, pc, attempt, existingFinalSize,
            existingTmpSize, remoteInfo, resumeOffset, req, strm, byteLimitReached,
            calls, result, net, hist>>

sessvars == <<COOKIE, ACTIVE_COOKIE, cli, disk, valid, answers, spc, sessionData, prep, login,
              units, allLinks, exitCode, obs>>

vars == <<dlvars, sessvars>>

\* ------------------------------------------------------------------ files
NoFile == [ex |-> FALSE, data |-> <<>>]
File(d) == [ex |-> TRUE, data |-> d]

\* bytes of the resource at offsets lo .. hi-1
Bytes(lo, hi) == [i \in 1..(IF hi > lo THEN hi - lo ELSE 0) |-> lo + i]

Min(a, b) == IF a < b THEN a ELSE b

\* fs.statSync(p).size inside try/catch: a missing file leaves the size at 0
StatSize(f) == IF f.ex THEN Len(f.data) ELSE 0

NoInfo == [set |-> FALSE, size |-> 0, acceptRanges |-> FALSE]
NoReq == [range |-> "none", from |-> 0, last |-> -1]
NoStream == [flags |-> "w", lo |-> 0, hi |-> 0, pending |-> <<>>, opened |-> FALSE,
             seen |-> 0, hit |-> FALSE]
NoNet == [head |-> 0, probe |-> 0, get |-> 0]
\* History of the run, read by the properties only:
\*   part0, final0   the two files when the current call started
\*   failed          attempts of the current call that failed
\*   nhAt            the attempt whose resume request was not answered 206 (0: none)
\*   kept            the partial file's bytes when the latest ordinary attempt failed
\*   keptAt          that attempt (0: none)
\*   renameFailed    the finalizing rename of the current call failed
\*   cancelled       the pipeline of the current call was rejected after the
\*                   limiter had reached its limit
\*   headFailed      the HEAD probe of the current call threw or was not ok
\*   probed          what the probe of the current call reported: "no" (no probe
\*                   answered yet), "sized" (the remote size), "unsized" (no size)
\*   firstResult, firstFinal   outcome of the first call, once it returned
NoHist == [part0 |-> NoFile, final0 |-> NoFile, failed |-> 0, nhAt |-> 0,
           kept |-> <<>>, keptAt |-> 0, renameFailed |-> FALSE, cancelled |-> FALSE,
           headFailed |-> FALSE, probed |-> "no", firstResult |-> "none", firstFinal |-> NoFile]

\* ------------------------------------------------------------------ Init
DlStart ==
    /\ remoteSize \in 1..MaxSize
    /\ srv \in {"range", "any"}
    /\ final \in {NoFile} \cup {File(Bytes(0, n)) : n \in 0..MaxSize}
    /\ part \in {NoFile} \cup {File(Bytes(0, n)) : n \in 0..MaxSize}
    /\ sampleBytes \in 0..MaxLimit
    /\ pc = "idle"
    /\ attempt = 0
    /\ existingFinalSize = 0
    /\ existingTmpSize = 0
    /\ remoteInfo = NoInfo
    /\ resumeOffset = 0
    /\ req = NoReq
    /\ strm = NoStream
    /\ byteLimitReached = FALSE
    /\ calls = 0
    /\ result = "none"
    /\ net = NoNet
    /\ hist = [NoHist EXCEPT !.part0 = part, !.final0 = final]

\* ------------------------------------------------------------------ downloadToFile
\* A call returns: the caller sees `r`; the first call's outcome is remembered.
\* downloadToFile's locals go out of scope.
Return(r, f, h) ==
    /\ pc' = "idle"
    /\ result' = r
    /\ hist' = IF calls = 1
               THEN [h EXCEPT !.firstResult = r, !.firstFinal = f]
               ELSE h
    /\ attempt' = 0
    /\ existingFinalSize' = 0
    /\ existingTmpSize' = 0
    /\ remoteInfo' = NoInfo
    /\ resumeOffset' = 0
    /\ req' = NoReq
    /\ strm' = NoStream
    /\ byteLimitReached' = FALSE

StartHist == [hist EXCEPT !.part0 = part, !.final0 = final, !.failed = 0, !.nhAt = 0,
                          !.kept = <<>>, !.keptAt = 0, !.renameFailed = FALSE,
                          !.cancelled = FALSE,
                          !.headFailed = FALSE, !.probed = "no"]

\* Line 700 without its test: a sample is downloaded again whatever the
\* destination holds.
NeverSampled == FALSE

\* Line 700: a sample whose destination is non-empty is not downloaded again.
AlreadySampled == StatSize(final) > 0 /\ sampleBytes > 0

\* Lines 698-707: stat both files; a sample whose destination is non-empty exists.
Start ==
    /\ pc = "idle"
    /\ UNCHANGED sessvars
    /\ calls < MaxCalls
    /\ result # "error"
    /\ calls' = calls + 1
    /\ net' = NoNet
    /\ IF AlreadySampled
       THEN /\ pc' = "idle"
            /\ result' = "exists"
            /\ hist' = IF calls = 0
                       THEN [StartHist EXCEPT !.firstResult = "exists", !.firstFinal = final]
                       ELSE StartHist
            /\ UNCHANGED <<attempt, existingFinalSize, existingTmpSize, remoteInfo,
                           resumeOffset, req, strm, byteLimitReached>>
       ELSE /\ existingFinalSize' = StatSize(final)
            /\ existingTmpSize' = StatSize(part)
            /\ UNCHANGED <<remoteInfo, resumeOffset, req, strm, byteLimitReached>>
            /\ result' = "none"
            /\ pc' = IF sampleBytes = 0 /\ StatSize(final) > 0 THEN "head" ELSE "attempt"
            /\ attempt' = IF sampleBytes = 0 /\ StatSize(final) > 0 THEN 0 ELSE 1
            /\ hist' = StartHist
    /\ UNCHANGED <<remoteSize, srv, final, part, sampleBytes>>

\* Line 709 with > in place of >=.
LargerThanRemote(info) == info.size > 0 /\ existingFinalSize > info.size

\* Line 709: the probe reported a size and the destination has reached it.
AlreadyComplete(info) == info.size > 0 /\ existingFinalSize >= info.size

\* Lines 709-712: with remoteInfo in hand, a destination that has reached the
\* reported size exists; otherwise the attempts begin.
PreFlight(info) ==
    IF AlreadyComplete(info)
    THEN Return("exists", final, [hist EXCEPT !.probed = "sized"])
    ELSE /\ remoteInfo' = info
         /\ pc' = "attempt"
         /\ attempt' = 1
         /\ result' = result
         /\ hist' = [hist EXCEPT !.probed = IF info.size > 0 THEN "sized" ELSE "unsized"]
         /\ UNCHANGED <<existingFinalSize, existingTmpSize, resumeOffset, req, strm,
                        byteLimitReached>>

\* What the server may say about ranges in a HEAD answer.
Advertised == BOOLEAN

\* getRemoteSizeAndRanges, HEAD (lines 239-247). The HEAD throws or is not ok
\* ("fail"), or is ok with a content-length ("sized") or without ("unsized").
HeadProbe ==
    /\ pc = "head"
    /\ UNCHANGED sessvars
    /\ net' = [net EXCEPT !.head = @ + 1]
    /\ \E o \in {"fail", "sized", "unsized"}, ar \in Advertised :
          IF o = "fail"
          THEN /\ pc' = "probe"
               /\ hist' = [hist EXCEPT !.headFailed = TRUE]
               /\ UNCHANGED <<remoteInfo, attempt, result, existingFinalSize,
                              existingTmpSize, resumeOffset, req, strm, byteLimitReached>>
          ELSE PreFlight([set |-> TRUE,
                          size |-> IF o = "sized" THEN remoteSize ELSE 0,
                          acceptRanges |-> ar])
    /\ UNCHANGED <<remoteSize, srv, final, part, sampleBytes, calls>>

\* getRemoteSizeAndRanges, the fallback GET of one byte (lines 249-260): only a
\* 206 is used, with the total of its content-range when it has one.
ProbeGet ==
    /\ pc = "probe"
    /\ UNCHANGED sessvars
    /\ net' = [net EXCEPT !.probe = @ + 1]
    /\ \E o \in {"fail", "sized", "unsized"} :
          /\ PreFlight([set |-> TRUE,
                        size |-> IF o = "sized" THEN remoteSize ELSE 0,
                        acceptRanges |-> o # "fail"])
    /\ UNCHANGED <<remoteSize, srv, final, part, sampleBytes, calls>>

\* Line 858 with <= in place of <.
RetryOnceMore == attempt <= maxRetries

\* Line 858: attempts are left.
MayRetry == attempt < maxRetries

\* An attempt failed (the catch of lines 855-864): retry after the backoff, or
\* throw to the caller after the last attempt. The partial file is left as it is.
\* `tmp` is the value existingTmpSize has after the attempt.
FailAttempt(h, tmp) ==
    IF MayRetry
    THEN /\ attempt' = attempt + 1
         /\ pc' = "attempt"
         /\ result' = result
         /\ hist' = [h EXCEPT !.failed = @ + 1]
         /\ existingTmpSize' = tmp
         /\ resumeOffset' = 0
         /\ req' = NoReq
         /\ strm' = NoStream
         /\ UNCHANGED <<existingFinalSize, remoteInfo, byteLimitReached>>
    ELSE Return("error", final, [h EXCEPT !.failed = @ + 1])

\* Lines 737-742: the Range header of the content GET: bytes=0-(limit-1) for a
\* sample, bytes=off- (last -1: open) for a resume, none otherwise.
requestInit(off) ==
    IF sampleBytes > 0
    THEN [range |-> "sample", from |-> 0,
          last |-> IF sampleBytes - 1 > 0 THEN sampleBytes - 1 ELSE 0]
    ELSE IF off > 0 THEN [range |-> "resume", from |-> off, last |-> -1]
    ELSE NoReq

\* The partial file opened for append whatever the attempt is.
AlwaysAppend == "a"

\* Line 757: flags 'w' for a sample and for offset 0, else 'a'.
Flags == IF sampleBytes > 0 \/ resumeOffset = 0 THEN "w" ELSE "a"

\* The destination moved back whatever the probe said of ranges.
MoveBackAlways ==
    /\ sampleBytes = 0
    /\ existingTmpSize = 0
    /\ existingFinalSize > 0

\* Lines 720-727: a full download with no partial file, a destination file and
\* a server that takes ranges moves the destination back to the partial path.
MoveBack ==
    /\ sampleBytes = 0
    /\ existingTmpSize = 0
    /\ existingFinalSize > 0
    /\ remoteInfo.acceptRanges

\* Lines 716-746: decide the resume offset, from the sizes read before the loop,
\* and issue the content GET. The rename of the destination to the partial path
\* may fail (it is inside try/catch).
BeginAttempt ==
    /\ pc = "attempt"
    /\ UNCHANGED sessvars
    /\ \E renameOk \in BOOLEAN :
          LET back == MoveBack /\ renameOk
              off == IF sampleBytes > 0 THEN 0
                     ELSE IF existingTmpSize > 0 THEN existingTmpSize
                     ELSE IF back THEN existingFinalSize
                     ELSE 0
          IN /\ renameOk \/ MoveBack
             /\ IF back
                THEN /\ part' = final
                     /\ final' = NoFile
                     /\ existingTmpSize' = existingFinalSize
                     /\ existingFinalSize' = 0
                ELSE UNCHANGED <<part, final, existingTmpSize, existingFinalSize>>
             /\ resumeOffset' = off
             /\ req' = requestInit(off)
    /\ net' = [net EXCEPT !.get = @ + 1]
    /\ pc' = "get"
    /\ UNCHANGED <<remoteSize, srv, sampleBytes, attempt, remoteInfo, strm,
                   byteLimitReached, calls, result, hist>>

\* The statuses the server may give the content GET: an error (the fetch throws,
\* or the status is not ok, such as 416 for a range past the end), 200 with the
\* whole resource, 206 with the range asked for.
Statuses ==
    {"err"}
    \cup (IF req.range = "none" \/ srv = "any" THEN {"200"} ELSE {})
    \cup (IF req.range = "sample" /\ srv \in {"range", "any"} THEN {"206"} ELSE {})
    \cup (IF req.range = "resume" /\ srv \in {"range", "any"} /\ req.from < remoteSize
          THEN {"206"} ELSE {})

\* Lines 746-758: the answer to the content GET.
Response ==
    /\ pc = "get"
    /\ UNCHANGED sessvars
    /\ \E st \in Statuses :
          IF st = "err"
          THEN /\ FailAttempt([hist EXCEPT !.kept = part.data, !.keptAt = attempt],
                               existingTmpSize)
               /\ UNCHANGED part
          ELSE IF resumeOffset > 0 /\ st # "206"
          THEN \* the server did not honour the range: delete the partial file
               /\ part' = NoFile
               /\ FailAttempt([hist EXCEPT !.nhAt = attempt, !.keptAt = 0, !.kept = <<>>], 0)
          ELSE /\ strm' = [flags |-> Flags,
                           lo |-> IF st = "206" THEN req.from ELSE 0,
                           hi |-> IF st = "206" /\ req.range = "sample"
                                  THEN Min(req.last + 1, remoteSize) ELSE remoteSize,
                           pending |-> <<>>, opened |-> FALSE, seen |-> 0, hit |-> FALSE]
               /\ pc' = "stream"
               /\ UNCHANGED <<part, existingTmpSize, resumeOffset, attempt, result, hist,
                              existingFinalSize, remoteInfo, req, byteLimitReached>>
    /\ UNCHANGED <<remoteSize, srv, final, sampleBytes, calls, net>>

\* ------------------------------------------------------------------ the pipeline
\* fs.createWriteStream(tmpPath, {flags}) once its open completes: 'w' creates or
\* truncates, 'a' creates or keeps.
Opened(f, flags) == IF flags = "w" THEN File(<<>>) ELSE File(f.data)

\* The write stream is destroyed (pipeline does so on an error of any stage):
\* an open still under way completes, the write handed to the file system
\* completes, the writes still queued in the stream are dropped.
Destroyed(f, st) ==
    IF ~st.opened THEN Opened(f, st.flags)
    ELSE IF st.pending # <<>> THEN File(f.data \o st.pending[1])
    ELSE f

OpenFile ==
    /\ pc = "stream"
    /\ UNCHANGED sessvars
    /\ ~strm.opened
    /\ part' = Opened(part, strm.flags)
    /\ strm' = [strm EXCEPT !.opened = TRUE]
    /\ UNCHANGED <<remoteSize, srv, final, sampleBytes, pc, attempt, existingFinalSize,
                   existingTmpSize, remoteInfo, resumeOffset, req, byteLimitReached,
                   calls, result, net, hist>>

\* ByteLimit._transform (lines 677-692) on a chunk of n bytes at offset lo:
\* what it pushes on, the bytes seen, and whether the limit is reached.
ByteLimit(limit, seen, lo, n) ==
    LET remaining == limit - seen
        len == IF n > remaining THEN remaining ELSE n
    IN [buf |-> Bytes(lo, lo + len), seen |-> seen + len, hit |-> seen + len >= limit]

\* The transport delivers the next chunk of the body; it goes through the
\* counter and, when sampling, the limiter, into the write stream's queue.
Chunk ==
    /\ pc = "stream"
    /\ UNCHANGED sessvars
    /\ ~strm.hit
    /\ strm.lo < strm.hi
    /\ \E n \in 1..Min(MaxChunk, strm.hi - strm.lo) :
          IF sampleBytes > 0
          THEN LET l == ByteLimit(sampleBytes, strm.seen, strm.lo, n)
               IN /\ strm' = [strm EXCEPT !.lo = @ + n,
                                          !.pending = Append(@, l.buf),
                                          !.seen = l.seen,
                                          !.hit = l.hit]
                  /\ byteLimitReached' = (byteLimitReached \/ l.hit)
          ELSE /\ strm' = [strm EXCEPT !.lo = @ + n,
                                       !.pending = Append(@, Bytes(strm.lo, strm.lo + n))]
               /\ UNCHANGED byteLimitReached
    /\ UNCHANGED <<remoteSize, srv, final, part, sampleBytes, pc, attempt,
                   existingFinalSize, existingTmpSize, remoteInfo, resumeOffset, req,
                   calls, result, net, hist>>

\* A queued write reaches the file.
Flush ==
    /\ pc = "stream"
    /\ UNCHANGED sessvars
    /\ strm.opened
    /\ strm.pending # <<>>
    /\ part' = File(part.data \o strm.pending[1])
    /\ strm' = [strm EXCEPT !.pending = Tail(@)]
    /\ UNCHANGED <<remoteSize, srv, final, sampleBytes, pc, attempt, existingFinalSize,
                   existingTmpSize, remoteInfo, resumeOffset, req, byteLimitReached,
                   calls, result, net, hist>>

\* A catch that rethrows whatever the pipeline rejected with.
Rethrown == FALSE

\* Line 829: the rejection of the pipeline is the limiter's own doing.
Cancelled == sampleBytes > 0 /\ byteLimitReached

\* Lines 828-840: pipeline rejected. After the limiter's cancellation the catch
\* finalizes; any other rejection is thrown on to the retry (855-864).
Rejected ==
    /\ part' = Destroyed(part, strm)
    /\ IF Cancelled
       THEN /\ strm' = NoStream
            /\ pc' = "finalize"
            /\ hist' = [hist EXCEPT !.cancelled = TRUE]
            /\ UNCHANGED <<attempt, existingFinalSize, existingTmpSize, remoteInfo,
                           resumeOffset, req, byteLimitReached, result>>
       ELSE FailAttempt([hist EXCEPT !.kept = Destroyed(part, strm).data, !.keptAt = attempt],
                        existingTmpSize)

\* The body stream fails (connection reset, the 120 s abort) before any limit is
\* reached: pipeline rejects.
StreamError ==
    /\ pc = "stream"
    /\ UNCHANGED sessvars
    /\ ~strm.hit
    /\ Rejected
    /\ UNCHANGED <<remoteSize, srv, final, sampleBytes, calls, net>>

\* The limiter reached the limit and destroyed the body stream (lines 819-823):
\* pipeline rejects with byteLimitReached set.
LimitCancel ==
    /\ pc = "stream"
    /\ UNCHANGED sessvars
    /\ strm.hit
    /\ Rejected
    /\ UNCHANGED <<remoteSize, srv, final, sampleBytes, calls, net>>

\* The body ended and every write reached the file: pipeline resolves.
StreamEnd ==
    /\ pc = "stream"
    /\ UNCHANGED sessvars
    /\ strm.lo = strm.hi
    /\ strm.opened
    /\ strm.pending = <<>>
    /\ strm' = NoStream
    /\ pc' = "finalize"
    /\ UNCHANGED <<remoteSize, srv, final, part, sampleBytes, attempt, existingFinalSize,
                   existingTmpSize, remoteInfo, resumeOffset, req, byteLimitReached,
                   calls, result, net, hist>>

\* Lines 848-854 (and 832-838): rename the partial file to the destination, copy
\* it if the rename fails, unlink the partial file, return 'downloaded'. Each of
\* the three may fail, and every failure is swallowed; after a rename there is
\* nothing left to copy or unlink.
Finalize ==
    /\ pc = "finalize"
    /\ UNCHANGED sessvars
    /\ \E renameOk \in BOOLEAN, copyOk \in BOOLEAN, unlinkOk \in BOOLEAN :
          /\ renameOk => (copyOk /\ unlinkOk)
          /\ final' = IF renameOk \/ copyOk THEN File(part.data) ELSE final
          /\ part' = IF renameOk \/ unlinkOk THEN NoFile ELSE part
          /\ Return("downloaded",
                    IF renameOk \/ copyOk THEN File(part.data) ELSE final,
                    [hist EXCEPT !.renameFailed = ~renameOk])
    /\ UNCHANGED <<remoteSize, srv, sampleBytes, calls, net>>

DlNext ==
    \/ Start
    \/ HeadProbe
    \/ ProbeGet
    \/ BeginAttempt
    \/ Response
    \/ OpenFile
    \/ Chunk
    \/ Flush
    \/ StreamError
    \/ LimitCancel
    \/ StreamEnd
    \/ Finalize

\* ================================================================== session
\* ------------------------------------------------------------------ cookies
\* A cookie string: the placeholder, the override from the environment, the one
\* stored for a user, or the one composed by a login (csrftoken=t; sessionid=s,
\* and with `extra` the other cookies the login collected).
Ck(kind, t, s) == [kind |-> kind, t |-> t, s |-> s, extra |-> FALSE]
NullCookie == Ck("null", 0, 0)
Placeholder == Ck("placeholder", 0, 0)
EnvCookie == Ck("env", 0, 0)

\* Keys of the Session Record: "u" is the address --user may name, "default"
\* the key a record in the old single-cookie format is read under.
Users == {"u", "default"}
StoredCookie(x) == Ck(IF x = "u" THEN "stored_u" ELSE "stored_default", 0, 0)
CookieKinds == {"env", "stored_u", "stored_default", "login"}

\* The address --user may give, in upper case between blanks, and the keys a
\* record may hold.
Emails == {" U "}
Keys == Users \cup Emails

\* An address as its characters, and back.
Chars(e) ==
    CASE e = " U " -> <<" ", "U", " ">>
      [] e = "u" -> <<"u">>
      [] e = "U" -> <<"U">>
      [] e = " u " -> <<" ", "u", " ">>
      [] OTHER -> <<"d", "e", "f", "a", "u", "l", "t">>

Text(c) ==
    CASE c = <<" ", "U", " ">> -> " U "
      [] c = <<"u">> -> "u"
      [] c = <<"U">> -> "U"
      [] c = <<" ", "u", " ">> -> " u "
      [] OTHER -> "default"

\* String.prototype.trim and toLowerCase.
RECURSIVE trim(_)
trim(c) ==
    IF c = <<>> THEN c
    ELSE IF Head(c) = " " THEN trim(Tail(c))
    ELSE IF c[Len(c)] = " " THEN trim(SubSeq(c, 1, Len(c) - 1))
    ELSE c

toLowerCase(c) == [i \in DOMAIN c |-> IF c[i] = "U" THEN "u" ELSE c[i]]

\* The key as given, neither trimmed nor lowered.
RawKey(email) == IF email = "none" THEN "default" ELSE email

\* Line 389: (email || 'default').trim().toLowerCase()
SessionKey(email) ==
    Text(toLowerCase(trim(Chars(IF email = "none" THEN "default" ELSE email))))

\* The record's entries: a cookie for a key (NullCookie: no entry) and when it
\* was set ("old": before this run, "now": in this run, "never").
NoEntries == [x \in Keys |-> NullCookie]
NeverUpdated == [x \in Keys |-> "never"]

\* The Session Record file: unreadable (missing, not JSON, neither format), the
\* old format { cookie }, or the format { users, lastUsed }.
NoSessionFile == [fmt |-> "none", cookie |-> NullCookie, users |-> NoEntries,
                  updated |-> NeverUpdated, lastUsed |-> "none"]
SessionFiles ==
    {NoSessionFile}
    \cup {[fmt |-> "legacy", cookie |-> c, users |-> NoEntries,
           updated |-> [NeverUpdated EXCEPT !["default"] = t],
           lastUsed |-> "none"] : c \in {NullCookie, StoredCookie("default")},
                                   t \in {"never", "old"}}
    \cup {[fmt |-> "multi", cookie |-> NullCookie,
           users |-> [x \in Keys |-> IF x \in S THEN StoredCookie(x) ELSE NullCookie],
           updated |-> [x \in Keys |-> IF x \in S THEN "old" ELSE "never"],
           lastUsed |-> k] : S \in SUBSET Users, k \in Users \cup {"none"}}

\* sessionData: null, or { users, lastUsed }.
NoRecord == [present |-> FALSE, users |-> NoEntries, updated |-> NeverUpdated,
             lastUsed |-> "none"]

\* readSessionFile: the record, an old-format file upgraded under 'default', or
\* null.
readSessionFile(f) ==
    CASE f.fmt = "multi" ->
            [present |-> TRUE, users |-> f.users, updated |-> f.updated,
             lastUsed |-> f.lastUsed]
      [] f.fmt = "legacy" ->
            [present |-> TRUE, users |-> [NoEntries EXCEPT !["default"] = f.cookie],
             updated |-> [NeverUpdated EXCEPT !["default"] =
                             IF f.updated["default"] = "never" THEN "now"
                             ELSE f.updated["default"]],
             lastUsed |-> "default"]
      [] OTHER -> NoRecord

\* writeSessionFileMulti's data: the record read earlier (or a new one) with the
\* entry under the address's key replaced, its time set, and lastUsed set to
\* the key.
Stored(existing, email, cookie) ==
    LET key == SessionKey(email)
        data == IF existing.present THEN existing ELSE NoRecord
    IN [present |-> TRUE,
        users |-> [data.users EXCEPT ![key] = cookie],
        updated |-> [data.updated EXCEPT ![key] = "now"],
        lastUsed |-> key]

\* JSON.stringify(data) written to the file.
Serialized(data) ==
    [fmt |-> "multi", cookie |-> NullCookie, users |-> data.users,
     updated |-> data.updated, lastUsed |-> data.lastUsed]

\* SimpleCookieStore: the value kept for csrftoken and for sessionid (0: none)
\* and whether any other cookie is kept.
NoStore == [csrftoken |-> 0, sessionid |-> 0, other |-> FALSE]

\* A Set-Cookie line: its text before the first ';' has an '=' or not, a name
\* before it ("": none) and a value after it.
CookieLine(name, value) == [eq |-> TRUE, name |-> name, value |-> value]
NoEquals == [eq |-> FALSE, name |-> "csrftoken", value |-> 9]
NoName == [eq |-> TRUE, name |-> "", value |-> 9]

\* A store that keeps the first value set for a name.
setCookieOnce(store, line) ==
    IF ~line.eq \/ line.name = "" THEN store
    ELSE CASE line.name = "csrftoken" /\ store.csrftoken = 0 ->
                   [store EXCEPT !.csrftoken = line.value]
           [] line.name = "sessionid" /\ store.sessionid = 0 ->
                   [store EXCEPT !.sessionid = line.value]
           [] line.name \notin {"csrftoken", "sessionid"} -> [store EXCEPT !.other = TRUE]
           [] OTHER -> store

\* setCookieLine: a line with no '=' or with no name is skipped; else the
\* value is set for the name, replacing the one it had.
setCookieLine(store, line) ==
    IF ~line.eq \/ line.name = "" THEN store
    ELSE CASE line.name = "csrftoken" -> [store EXCEPT !.csrftoken = line.value]
           [] line.name = "sessionid" -> [store EXCEPT !.sessionid = line.value]
           [] OTHER -> [store EXCEPT !.other = TRUE]

\* The Set-Cookie lines of a response that sets csrftoken to t and sessionid to
\* s (0: does not set it), with `other` some other cookie, and with `bad` has
\* two malformed lines.
SetCookie(t, s, other, bad) ==
    (IF bad THEN <<NoEquals, NoName>> ELSE <<>>)
    \o (IF t # 0 THEN <<CookieLine("csrftoken", t)>> ELSE <<>>)
    \o (IF s # 0 THEN <<CookieLine("sessionid", s)>> ELSE <<>>)
    \o (IF other THEN <<CookieLine("other", 1)>> ELSE <<>>)

\* applySetCookie: setCookieLine on each line, in order.
RECURSIVE applySetCookie(_, _)
applySetCookie(store, arr) ==
    IF arr = <<>> THEN store
    ELSE applySetCookie(setCookieLine(store, Head(arr)), Tail(arr))

\* headerString: every cookie of the store.
headerString(store, csrf) ==
    [kind |-> "login", t |-> store.csrftoken, s |-> store.sessionid, extra |-> store.other]

\* Lines 564-567: csrftoken from the store, or else the token; sessionid from
\* the store; nothing else.
Composed(store, csrf) ==
    Ck("login", IF store.csrftoken # 0 THEN store.csrftoken ELSE csrf, store.sessionid)

\* What the answers of a login carried: the latest value set for the csrftoken
\* cookie and for the sessionid cookie, the token in the identity JSON body
\* (0: none), any other cookie, any malformed Set-Cookie line.
NoneSeen == [csrftoken |-> 0, sessionid |-> 0, body |-> 0, other |-> FALSE, bad |-> FALSE]

\* loginWithCredentialsInline while it runs: its cookie store, its token, what
\* its answers carried, and what check-active-user answered ("none": not yet);
\* once it is over: the error it threw ("none": none) or that it returned.
NoLogin == [store |-> NoStore, csrf |-> 0, seen |-> NoneSeen, checked |-> "none",
            thrown |-> "none", returned |-> FALSE]
NoPrep == [core |-> FALSE, source |-> "pending"]

\* What an observer of the run sees:
\*   verifies   identity (core-data) requests sent with the cookie in use
\*   reads, writes   reads and writes of the Session Record file
\*   login      the requests of the Fresh Login, in the order issued
\*   content    content requests (chapters API, lecture pages)
\*   manifest   the links file was written
\*   authed     the cookie sent with the latest identity check, if that check
\*              reported an authenticated user (NullCookie otherwise)
\*   override   what the identity check of step 1 said of the override cookie
\*   before     the active cookie when the Fresh Login started
\*   diag       the diagnostic printed when the run aborted
NoObs == [verifies |-> 0, reads |-> 0, writes |-> 0, login |-> <<>>, content |-> 0,
          manifest |-> FALSE, authed |-> NullCookie, override |-> "none",
          before |-> NullCookie, diag |-> "none"]

SessOff ==
    /\ COOKIE = Placeholder
    /\ ACTIVE_COOKIE = NullCookie
    /\ cli = [userEmail |-> "none", userPassword |-> FALSE, sessionFile |-> FALSE,
              forceLogin |-> FALSE]
    /\ disk = NoSessionFile
    /\ valid = {}
    /\ answers = TRUE
    /\ spc = "off"
    /\ sessionData = NoRecord
    /\ prep = NoPrep
    /\ login = NoLogin
    /\ units = 0
    /\ allLinks = 0
    /\ exitCode = -1
    /\ obs = NoObs

DlOff ==
    /\ remoteSize = 1
    /\ srv = "range"
    /\ final = NoFile
    /\ part = NoFile
    /\ sampleBytes = 0
    /\ pc = "off"
    /\ attempt = 0
    /\ existingFinalSize = 0
    /\ existingTmpSize = 0
    /\ remoteInfo = NoInfo
    /\ resumeOffset = 0
    /\ req = NoReq
    /\ strm = NoStream
    /\ byteLimitReached = FALSE
    /\ calls = 0
    /\ result = "none"
    /\ net = NoNet
    /\ hist = NoHist

DlInit == DlStart /\ SessOff

SpecDL == DlInit /\ [][DlNext]_vars

\* The process starts: COOKIE from the environment, ACTIVE_COOKIE = null, the
\* command line parsed.
SessInit ==
    /\ DlOff
    /\ COOKIE \in {Placeholder, EnvCookie}
    /\ ACTIVE_COOKIE = NullCookie
    /\ cli \in [userEmail : {"none"} \cup Emails, userPassword : BOOLEAN,
                sessionFile : BOOLEAN, forceLogin : BOOLEAN]
    /\ disk \in SessionFiles
    /\ valid \in SUBSET CookieKinds
    /\ answers \in BOOLEAN
    /\ spc = "start"
    /\ sessionData = NoRecord
    /\ prep = NoPrep
    /\ login = NoLogin
    /\ units = 0
    /\ allLinks = 0
    /\ exitCode = -1
    /\ obs = NoObs

\* commonHeaders: the cookie a request carries (NullCookie: no cookie header).
SentCookie ==
    IF ACTIVE_COOKIE # NullCookie THEN ACTIVE_COOKIE
    ELSE IF COOKIE # Placeholder THEN COOKIE
    ELSE NullCookie

\* userEmail ? userEmail.trim().toLowerCase() : null
desiredUserKey ==
    IF cli.userEmail = "none" THEN "none"
    ELSE Text(toLowerCase(trim(Chars(cli.userEmail))))

\* fetchWithTimeout: the outcomes of a request, of which only the rejection
\* `aborted` is left when the server does not answer before the timer fires.
fetchWithTimeout(outcomes, aborted) == IF answers THEN outcomes ELSE {aborted}

\* rawRequest: the promise settles when the response has ended or the socket
\* reports an error; it carries no timer.
rawRequest == answers

\* The ways fetchCoreData throws: the request rejected or aborted by the
\* timer, a status that is not ok, a body that is not JSON.
CoreErrors == {"network", "status", "unparsable"}

\* fetchCoreData with the cookie in use: "auth" (is_authenticated) only for a
\* cookie the server knows; "anonymous" (a body that does not say
\* authenticated) or one of the errors at any time.
CoreData ==
    fetchWithTimeout({"anonymous"} \cup CoreErrors
                         \cup (IF SentCookie.kind \in valid THEN {"auth"} ELSE {}),
                     "network")

Verified(o) == [obs EXCEPT !.verifies = @ + 1,
                           !.authed = IF o = "auth" THEN SentCookie ELSE NullCookie]

\* prepareSession returns { core, source }.
Done(core, source) ==
    /\ prep' = [core |-> core, source |-> source]
    /\ spc' = "ensure"

\* process.exit(code)
Exit(code, diag, o) ==
    /\ exitCode' = code
    /\ spc' = "exit"
    /\ obs' = [o EXCEPT !.diag = diag]

\* Step 1: the override cookie, when there is one, becomes the active cookie.
Override ==
    /\ spc = "start"
    /\ UNCHANGED dlvars
    /\ IF COOKIE # Placeholder
       THEN ACTIVE_COOKIE' = COOKIE /\ spc' = "v1"
       ELSE ACTIVE_COOKIE' = ACTIVE_COOKIE /\ spc' = "load"
    /\ UNCHANGED <<answers, COOKIE, cli, disk, valid, sessionData, prep, login, units, allLinks,
                   exitCode, obs>>

\* verify() with no try around the request: the errors of fetchCoreData
\* leave prepareSession.
verifyUncaught(o) ==
    IF o = "auth" THEN "core" ELSE IF o \in CoreErrors THEN "throw" ELSE "null"

\* verify(): the core data when the answer says authenticated, else null;
\* whatever fetchCoreData throws is caught and gives null.
verify(o) == IF o = "auth" THEN "core" ELSE "null"

\* What follows a verification in prepareSession: return { core, source },
\* go on with the next step, or let the exception reach main().catch.
AfterVerify(r, source, next, ob) ==
    CASE r = "core" -> Done(TRUE, source) /\ exitCode' = exitCode /\ obs' = ob
      [] r = "null" -> spc' = next /\ prep' = prep /\ exitCode' = exitCode /\ obs' = ob
      [] OTHER -> Exit(1, "fatal", ob) /\ prep' = prep

\* Step 1 taking a verified override only when forceLogin is not set.
UnlessForced(r) == IF cli.forceLogin /\ r = "core" THEN "null" ELSE r

\* Step 1's use of verify's result: core data returns, forceLogin or not.
OverrideResult(r) == r

\* Step 1: verify the override cookie; return it when valid.
VerifyOverride ==
    /\ spc = "v1"
    /\ UNCHANGED dlvars
    /\ \E o \in CoreData :
          AfterVerify(OverrideResult(verify(o)), "env", "load",
                      [Verified(o) EXCEPT !.override = IF o = "auth" THEN "verified" ELSE "failed"])
    /\ UNCHANGED <<answers, COOKIE, ACTIVE_COOKIE, cli, disk, valid, sessionData, login, units,
                   allLinks>>

\* The requested user's entry, forceLogin or not.
StoredEvenIfForced(data) ==
    IF data.present /\ desiredUserKey # "none"
    THEN data.users[desiredUserKey]
    ELSE NullCookie

\* The entry step 2a adopts: the requested user's, unless forceLogin is set.
StoredForUser(data) ==
    IF data.present /\ desiredUserKey # "none" /\ ~cli.forceLogin
    THEN data.users[desiredUserKey]
    ELSE NullCookie

\* Steps 2 and 2a: read the Session Record; adopt the cookie stored for the
\* requested user.
Load ==
    /\ spc = "load"
    /\ UNCHANGED dlvars
    /\ LET data == IF cli.sessionFile THEN readSessionFile(disk) ELSE NoRecord
       IN /\ sessionData' = data
          /\ obs' = [obs EXCEPT !.reads = IF cli.sessionFile THEN @ + 1 ELSE @]
          /\ IF StoredForUser(data) # NullCookie
             THEN ACTIVE_COOKIE' = StoredForUser(data) /\ spc' = "v2a"
             ELSE ACTIVE_COOKIE' = ACTIVE_COOKIE /\ spc' = "last"
    /\ UNCHANGED <<answers, COOKIE, cli, disk, valid, prep, login, units, allLinks, exitCode>>

\* Step 2a: verify the stored cookie; clear the active cookie when invalid.
VerifyStoredUser ==
    /\ spc = "v2a"
    /\ UNCHANGED dlvars
    /\ \E o \in CoreData :
          /\ AfterVerify(verify(o), "stored-user", "last", Verified(o))
          /\ ACTIVE_COOKIE' = IF verify(o) = "null" THEN NullCookie ELSE ACTIVE_COOKIE
    /\ UNCHANGED <<answers, COOKIE, cli, disk, valid, sessionData, login, units, allLinks>>

\* The entry step 2b adopts: lastUsed's, when no user is requested.
StoredLast(data) ==
    IF data.present /\ desiredUserKey = "none" /\ data.lastUsed # "none"
    THEN data.users[data.lastUsed]
    ELSE NullCookie

\* Step 2b: with no user requested, adopt the lastUsed cookie.
LastUsed ==
    /\ spc = "last"
    /\ UNCHANGED dlvars
    /\ IF StoredLast(sessionData) # NullCookie
       THEN ACTIVE_COOKIE' = StoredLast(sessionData) /\ spc' = "v2b"
       ELSE ACTIVE_COOKIE' = ACTIVE_COOKIE /\ spc' = "cred"
    /\ UNCHANGED <<answers, COOKIE, cli, disk, valid, sessionData, prep, login, units, allLinks,
                   exitCode, obs>>

\* Step 2b: verify the lastUsed cookie (it stays active when invalid).
VerifyLastUsed ==
    /\ spc = "v2b"
    /\ UNCHANGED dlvars
    /\ \E o \in CoreData :
          AfterVerify(verify(o), "stored-last", "cred", Verified(o))
    /\ UNCHANGED <<answers, COOKIE, ACTIVE_COOKIE, cli, disk, valid, sessionData, login, units,
                   allLinks>>

\* Step 3's condition: credentials, and no active cookie or forceLogin.
NeedLogin ==
    /\ desiredUserKey # "none"
    /\ cli.userPassword
    /\ (ACTIVE_COOKIE = NullCookie \/ cli.forceLogin)

\* Step 3: start the Fresh Login, or fall to step 4.
Credentials ==
    /\ spc = "cred"
    /\ UNCHANGED dlvars
    /\ IF NeedLogin
       THEN spc' = "page" /\ prep' = prep /\ obs' = [obs EXCEPT !.before = ACTIVE_COOKIE]
       ELSE Done(FALSE, "none") /\ obs' = obs
    /\ login' = NoLogin
    /\ UNCHANGED <<answers, COOKIE, ACTIVE_COOKIE, cli, disk, valid, sessionData, units,
                   allLinks, exitCode>>

\* A failed login that also clears the active cookie.
LoginFailedClears(l, why) ==
    /\ login' = [NoLogin EXCEPT !.thrown = why]
    /\ ACTIVE_COOKIE' = NullCookie
    /\ Done(FALSE, "none")

\* A throw inside loginWithCredentialsInline (`why` names the error): caught
\* by prepareSession, which falls to step 4 and returns { core: null, source:
\* 'none' }. `l`, the login's state when it throws, goes out of scope.
LoginFailed(l, why) ==
    /\ login' = [NoLogin EXCEPT !.thrown = why]
    /\ ACTIVE_COOKIE' = ACTIVE_COOKIE
    /\ Done(FALSE, "none")

Requested(name) == [obs EXCEPT !.login = Append(@, name)]

\* An answer set csrftoken to t and sessionid to s (0: not set), carried the
\* token `body` in its JSON (0: none) and, with `other`, set some other cookie.
Answered(seen, t, s, body, other) ==
    [csrftoken |-> IF t # 0 THEN t ELSE seen.csrftoken,
     sessionid |-> IF s # 0 THEN s ELSE seen.sessionid,
     body |-> IF body # 0 THEN body ELSE seen.body,
     other |-> seen.other \/ other,
     bad |-> seen.bad]

\* Login step 0: GET the login page for the csrftoken cookie (value 1).
LoginPage ==
    /\ spc = "page"
    /\ rawRequest
    /\ UNCHANGED dlvars
    /\ obs' = Requested("page")
    /\ \E o \in {"error", "answer"}, t \in {0, 1}, other \in BOOLEAN, bad \in BOOLEAN :
          IF o = "error"
          THEN LoginFailed(login, "network")
          ELSE LET store == applySetCookie(login.store, SetCookie(t, 0, other, bad))
               IN /\ login' = [login EXCEPT !.store = store, !.csrf = store.csrftoken,
                                            !.seen = [Answered(@, t, 0, 0, other)
                                                         EXCEPT !.bad = bad]]
                  /\ spc' = IF store.csrftoken # 0 THEN "check" ELSE "csrf"
                  /\ UNCHANGED <<prep, ACTIVE_COOKIE>>
    /\ UNCHANGED <<answers, COOKIE, cli, disk, valid, sessionData, units, allLinks, exitCode>>

\* Login step 0b: the core-data endpoint, for a token in the body (value 2) or
\* in a cookie (value 4); none: 'Cannot obtain CSRF token'.
LoginCsrf ==
    /\ spc = "csrf"
    /\ rawRequest
    /\ UNCHANGED dlvars
    /\ obs' = Requested("core-data")
    /\ \E o \in {"error", "answer"}, t \in {0, 4}, body \in {0, 2} :
          IF o = "error"
          THEN LoginFailed(login, "network")
          ELSE LET store == applySetCookie(login.store, SetCookie(t, 0, FALSE, FALSE))
                   csrf == IF body # 0 THEN body ELSE store.csrftoken
                   l == [login EXCEPT !.store = store, !.csrf = csrf,
                                      !.seen = Answered(@, t, 0, body, FALSE)]
               IN /\ IF csrf = 0
                     THEN LoginFailed(l, "csrf-unavailable")
                     ELSE login' = l /\ spc' = "check" /\ UNCHANGED <<prep, ACTIVE_COOKIE>>
    /\ UNCHANGED <<answers, COOKIE, cli, disk, valid, sessionData, units, allLinks, exitCode>>

\* Any parsed answer of check-active-user lets the login go on.
AnyMessage(o) == o \in {"not-success", "not-get-pass", "get-pass"}

\* Lines 519-526: status 'success' and message 'get-pass'.
GetPass(o) == o = "get-pass"

\* Login step 1: POST check-active-user; only status success with message
\* get-pass continues. The answer may set the csrftoken cookie anew (value 3)
\* and a sessionid (value 1).
LoginCheckUser ==
    /\ spc = "check"
    /\ rawRequest
    /\ UNCHANGED dlvars
    /\ obs' = Requested("check-active-user")
    /\ \E o \in {"error", "invalid-json", "not-success", "not-get-pass", "get-pass"},
          t \in {0, 3}, s \in {0, 1} :
          IF o = "error"
          THEN LoginFailed(login, "network")
          ELSE LET l == [login EXCEPT !.store = applySetCookie(@, SetCookie(t, s, FALSE, FALSE)),
                                      !.seen = Answered(@, t, s, 0, FALSE),
                                      !.checked = o]
               IN /\ IF GetPass(o)
                     THEN login' = l /\ spc' = "auth" /\ UNCHANGED <<prep, ACTIVE_COOKIE>>
                     ELSE LoginFailed(l, o)
    /\ UNCHANGED <<answers, COOKIE, cli, disk, valid, sessionData, units, allLinks, exitCode>>

\* Line 566 without its test.
AnyStore(store) == TRUE

\* Line 566: the store holds a sessionid.
SessionCookiePresent(store) == store.sessionid # 0

\* The cookie may be stored: the login returned, a cookie is active and a
\* session file is named.
MayStore == ACTIVE_COOKIE' # NullCookie /\ cli.sessionFile

\* Login step 2: POST login-authentication (its answer may set sessionid, value
\* 2); on success compose the active cookie.
LoginAuthenticate ==
    /\ spc = "auth"
    /\ rawRequest
    /\ UNCHANGED dlvars
    /\ obs' = Requested("login-authentication")
    /\ \E o \in {"error", "invalid-json", "not-success", "success"}, s \in {0, 2} :
          IF o = "error"
          THEN LoginFailed(login, "network")
          ELSE LET l == [login EXCEPT !.store = applySetCookie(@, SetCookie(0, s, FALSE, FALSE)),
                                      !.seen = Answered(@, 0, s, 0, FALSE)]
               IN /\ CASE o # "success" -> LoginFailed(l, o)
                       [] o = "success" /\ ~SessionCookiePresent(l.store) ->
                             LoginFailed(l, "no-session-cookie")
                       [] OTHER ->
                             /\ login' = [NoLogin EXCEPT !.returned = TRUE, !.seen = l.seen]
                             /\ ACTIVE_COOKIE' = Composed(l.store, l.csrf)
                             /\ spc' = IF MayStore THEN "save" ELSE "v3"
                             /\ prep' = prep
    /\ UNCHANGED <<answers, COOKIE, cli, disk, valid, sessionData, units, allLinks, exitCode>>

\* writeFile not inside a try: a failed write leaves step 3 through its catch.
writeFileUncaught(written) == IF written THEN "v3" ELSE "ensure"

\* Line 393: writeFile inside try/catch; written or not, writeSessionFileMulti
\* returns and step 3 goes on with the verification.
writeFile(written) == "v3"

\* Step 3: writeSessionFileMulti stores the new cookie under the user; a failed
\* write is swallowed.
SaveSession ==
    /\ spc = "save"
    /\ UNCHANGED dlvars
    /\ LET data == Stored(sessionData, cli.userEmail, ACTIVE_COOKIE)
       IN /\ sessionData' = data
          /\ \E written \in BOOLEAN :
                /\ disk' = IF written THEN Serialized(data) ELSE disk
                /\ IF writeFile(written) = "v3"
                   THEN spc' = "v3" /\ prep' = prep
                   ELSE Done(FALSE, "none")
    /\ obs' = [obs EXCEPT !.writes = @ + 1]
    /\ UNCHANGED <<answers, COOKIE, ACTIVE_COOKIE, cli, valid, login, units, allLinks, exitCode>>

\* Step 3: verify the cookie of the Fresh Login; step 3 is over.
VerifyLogin ==
    /\ spc = "v3"
    /\ UNCHANGED dlvars
    /\ \E o \in CoreData :
          /\ obs' = Verified(o)
          /\ IF verify(o) = "core"
             THEN Done(TRUE, "fresh-login")
             ELSE Done(FALSE, "none")
    /\ login' = [login EXCEPT !.seen = NoneSeen]
    /\ UNCHANGED <<answers, COOKIE, ACTIVE_COOKIE, cli, disk, valid, sessionData, units,
                   allLinks, exitCode>>

\* ensureCookiePresent: exit 1 with neither an active nor an override cookie.
EnsureCookiePresent ==
    /\ spc = "ensure"
    /\ UNCHANGED dlvars
    /\ IF ACTIVE_COOKIE = NullCookie /\ COOKIE = Placeholder
       THEN Exit(1, "no-session", obs)
       ELSE /\ spc' = IF prep.core THEN "chapters" ELSE "recheck"
            /\ UNCHANGED <<exitCode, obs>>
    /\ UNCHANGED <<answers, COOKIE, ACTIVE_COOKIE, cli, disk, valid, sessionData, prep, login, units,
                   allLinks>>

\* main going on whatever the identity check answered.
AnyAnswer(o) == TRUE

\* printProfileSummary's result for the answer of main's own identity check.
printProfileSummary(o) == o = "auth"

\* main: with no core data from prepareSession, ask once more; exit 1 when the
\* request fails and when the answer does not say authenticated.
Recheck ==
    /\ spc = "recheck"
    /\ UNCHANGED dlvars
    /\ \E o \in CoreData :
          IF o \in CoreErrors
          THEN Exit(1, "verify-failed", Verified(o))
          ELSE IF printProfileSummary(o)
               THEN /\ obs' = Verified(o)
                    /\ spc' = "chapters"
                    /\ exitCode' = exitCode
               ELSE Exit(1, "not-logged-in", Verified(o))
    /\ UNCHANGED <<answers, COOKIE, ACTIVE_COOKIE, cli, disk, valid, sessionData, prep, login, units,
                   allLinks>>

\* A chapters answer that is never taken as empty.
NeverEmpty(n) == FALSE

\* Line 974: chapters.length === 0.
NoChapters(n) == n = 0

\* main: fetchChapters; a failed request is fatal (exit 1), no chapter exit 2.
FetchChapters ==
    /\ spc = "chapters"
    /\ UNCHANGED dlvars
    /\ LET o1 == [obs EXCEPT !.content = @ + 1]
       IN \E n \in fetchWithTimeout(-1..MaxUnits, -1) :
             CASE n = -1 -> Exit(1, "fatal", o1) /\ units' = units
               [] n # -1 /\ NoChapters(n) -> Exit(2, "no-chapters", o1) /\ units' = units
               [] OTHER -> /\ units' = n
                           /\ obs' = o1
                           /\ spc' = "collect"
                           /\ exitCode' = exitCode
    /\ UNCHANGED <<answers, COOKIE, ACTIVE_COOKIE, cli, disk, valid, sessionData, prep, login,
                   allLinks>>

\* collectAllDownloadLinks, one unit: skipped (not a lecture, locked), or its
\* page requested and a link found or not.
CollectUnit ==
    /\ spc = "collect"
    /\ units > 0
    /\ UNCHANGED dlvars
    /\ units' = units - 1
    /\ \E o \in {"skip"} \cup fetchWithTimeout({"nolink", "link"}, "nolink") :
          /\ obs' = [obs EXCEPT !.content = IF o = "skip" THEN @ ELSE @ + 1]
          /\ allLinks' = IF o = "link" THEN allLinks + 1 ELSE allLinks
    /\ UNCHANGED <<answers, COOKIE, ACTIVE_COOKIE, cli, disk, valid, spc, sessionData, prep, login,
                   exitCode>>

\* main: no link exit 3; else write the links file (exit 4 when that fails).
SaveLinks ==
    /\ spc = "collect"
    /\ units = 0
    /\ UNCHANGED dlvars
    /\ IF allLinks = 0
       THEN Exit(3, "no-links", obs)
       ELSE \E written \in BOOLEAN :
               IF written
               THEN Exit(0, "none", [obs EXCEPT !.manifest = TRUE])
               ELSE Exit(4, "save-failed", obs)
    /\ UNCHANGED <<answers, COOKIE, ACTIVE_COOKIE, cli, disk, valid, sessionData, prep, login, units,
                   allLinks>>

SessNext ==
    \/ Override
    \/ VerifyOverride
    \/ Load
    \/ VerifyStoredUser
    \/ LastUsed
    \/ VerifyLastUsed
    \/ Credentials
    \/ LoginPage
    \/ LoginCsrf
    \/ LoginCheckUser
    \/ LoginAuthenticate
    \/ SaveSession
    \/ VerifyLogin
    \/ EnsureCookiePresent
    \/ Recheck
    \/ FetchChapters
    \/ CollectUnit
    \/ SaveLinks

SpecSess == SessInit /\ [][SessNext]_vars

\* The event loop runs every continuation that is ready: a step that can be
\* taken is taken.
FairSess == SpecSess /\ WF_vars(SessNext)

\* ================================================================== properties
IsPrefix(a, b) == Len(a) <= Len(b) /\ SubSeq(b, 1, Len(a)) = a

\* A file holds the bytes of the resource, each at its own offset.
Coherent(f) == f.data = Bytes(0, Len(f.data))

Returned == calls >= 1 /\ pc = "idle"

\* C1 (as claimed): a full download that starts from a partial file of K bytes
\* against a range-supporting server and returns Downloaded leaves, at the
\* destination, the K-byte prefix followed by the resource from offset K on:
\* the whole resource. Stated for the calls whose finalizing rename succeeded.
C1_ResumedEqualsFresh ==
    (/\ Returned
     /\ result = "downloaded"
     /\ sampleBytes = 0
     /\ srv = "range"
     /\ StatSize(hist.part0) > 0
     /\ ~hist.renameFailed)
    => final = File(hist.part0.data \o Bytes(StatSize(hist.part0), remoteSize))

\* C2 (as claimed): after a resume request that was not answered 206 the next
\* attempt of the call starts at offset 0 with no Range header, and from then on
\* neither file holds bytes at a wrong offset.
C2_RestartsFromZero ==
    /\ (pc = "get" /\ hist.nhAt > 0 /\ attempt = hist.nhAt + 1)
          => (req = NoReq /\ resumeOffset = 0)
    /\ (hist.nhAt > 0 /\ result # "downloaded") => (Coherent(part) /\ Coherent(final))

\* C3 (as claimed): the bytes the partial file held when an attempt of a full
\* download failed (range-not-honoured excepted) are still there, at the head
\* of the partial file, until the call renames it to the destination.
\* Stated for the calls that start with no destination file.
C3_FailureKeepsPartial ==
    (/\ sampleBytes = 0
     /\ ~hist.final0.ex
     /\ hist.keptAt > 0
     /\ result # "downloaded"
     /\ pc # "finalize")
    => IsPrefix(hist.kept, part.data)

\* The attempts of the current call are counted one by one: while an attempt
\* runs it is the only one, its GET is the attempt-th content GET of the call
\* and all attempts before it failed.
AttemptsInSequence ==
    /\ net.get <= maxRetries
    /\ pc = "attempt" => (attempt = net.get + 1 /\ hist.failed = net.get)
    /\ pc \in {"get", "stream", "finalize"} => (attempt = net.get /\ hist.failed = net.get - 1)
    /\ attempt <= maxRetries

\* What a running call still has to do, as a natural number: the attempts
\* left, and within the attempt the steps to its end (two per byte the body
\* still has to deliver, one per queued write, one for the open).
AttemptSpan == 2 * remoteSize + 6

StreamWork == 2 * (strm.hi - strm.lo) + Len(strm.pending) + (IF strm.opened THEN 0 ELSE 1)

Variant ==
    CASE pc = "head" -> maxRetries * AttemptSpan + 2
      [] pc = "probe" -> maxRetries * AttemptSpan + 1
      [] pc = "attempt" -> (maxRetries - attempt) * AttemptSpan + 2 * remoteSize + 5
      [] pc = "get" -> (maxRetries - attempt) * AttemptSpan + 2 * remoteSize + 4
      [] pc = "stream" -> (maxRetries - attempt) * AttemptSpan + 2 + StreamWork
      [] pc = "finalize" -> (maxRetries - attempt) * AttemptSpan + 1
      [] OTHER -> 0

\* C11: a call issues at most maxRetries content GETs, one attempt at a time;
\* a failed attempt that is not the last is followed by the next attempt, the
\* error reaches the caller only when attempt maxRetries has failed, and every
\* call that has started returns Exists, Downloaded or the error: a running
\* call can always take a step and each of its steps lowers Variant, which
\* never goes below 0, so the call returns.
C11_BoundedAttemptsThenReturn ==
    /\ [](AttemptsInSequence
          /\ (Returned => result \in {"exists", "downloaded", "error"})
          /\ (Returned /\ result = "error"
                 => (hist.failed = maxRetries /\ net.get = maxRetries)))
    /\ [][hist'.failed > hist.failed
            => IF hist.failed + 1 < maxRetries
               THEN pc' = "attempt" /\ attempt' = attempt + 1 /\ result' = result
               ELSE pc' = "idle" /\ result' = "error"]_vars
    /\ [](pc # "idle" => (Variant > 0 /\ ENABLED DlNext))
    /\ [][pc # "idle" => (Variant' >= 0 /\ Variant' < Variant)]_vars

\* C11's case: the call failed maxRetries times and raised the error.
C11_Witness ==
    /\ Returned
    /\ result = "error"
    /\ net.get = maxRetries
    /\ hist.failed = maxRetries

\* prepareSession has returned.
PrepareSessionReturned == prep.source # "pending"

\* C4 (as claimed): when prepareSession returns, having been given a user and
\* a password and with no source verified in steps 1 to 2b, it has sent at
\* least the first request of a Fresh Login.
C4_CredentialsLeadToLogin ==
    (/\ PrepareSessionReturned
     /\ desiredUserKey # "none"
     /\ cli.userPassword
     /\ prep.source \notin {"env", "stored-user", "stored-last"})
    => obs.login # <<>>

\* C5: once the override cookie has verified at step 1, prepareSession has
\* returned it with the source 'env'; from then on the Session Record file has
\* been neither read nor written, no stored entry has been adopted (the active
\* cookie is the override) and no login request has been sent.
C5_ValidOverrideWins ==
    obs.override = "verified" =>
        /\ prep = [core |-> TRUE, source |-> "env"]
        /\ ACTIVE_COOKIE = COOKIE
        /\ sessionData = NoRecord
        /\ obs.reads = 0
        /\ obs.writes = 0
        /\ obs.login = <<>>
        /\ obs.verifies = 1

\* C5's case: the run went through with a verified override cookie although a
\* valid entry is stored for the user, a password is given and forceLogin is
\* set.
C5_Witness ==
    /\ obs.override = "verified"
    /\ obs.manifest
    /\ cli = [userEmail |-> " U ", userPassword |-> TRUE, sessionFile |-> TRUE,
              forceLogin |-> TRUE]
    /\ disk.fmt = "multi"
    /\ disk.users["u"] = StoredCookie("u")
    /\ "stored_u" \in valid

C13_FailedLoginLeavesNoTrace ==
    /\ [](login.thrown # "none"
            => (ACTIVE_COOKIE = obs.before /\ obs.writes = 0 /\ ~login.returned))
    /\ [](obs.writes > 0 => login.returned)
    /\ [][(disk' # disk \/ obs'.writes # obs.writes) => login.returned]_vars

\* C13's case: a forced login, started with the override cookie active and a
\* session file named, failed at the precheck.
C13_Witness ==
    /\ login.thrown = "not-get-pass"
    /\ obs.before = EnvCookie
    /\ cli.sessionFile
    /\ PrepareSessionReturned

\* How many of the login's requests went to `name`.
Count(name) == Cardinality({i \in DOMAIN obs.login : obs.login[i] = name})

\* C14: the login returns only with a sessionid in its store. When the
\* login-authentication answer said success and the store holds no sessionid
\* the login has thrown: the active cookie is the one from before the login,
\* the Session Record file has not been written, prepareSession does not
\* return 'fresh-login', and no request of the login was sent a second time.
C14_SuccessWithoutSessionFails ==
    /\ login.returned => (ACTIVE_COOKIE.kind = "login" /\ ACTIVE_COOKIE.s # 0)
    /\ login.thrown = "no-session-cookie" =>
          /\ ~login.returned
          /\ ACTIVE_COOKIE = obs.before
          /\ ACTIVE_COOKIE.kind # "login"
          /\ obs.writes = 0
          /\ prep = [core |-> FALSE, source |-> "none"]
          /\ obs.login[Len(obs.login)] = "login-authentication"
          /\ \A i \in DOMAIN obs.login : Count(obs.login[i]) = 1
          /\ spc \notin {"page", "csrf", "check", "auth", "save", "v3"}

\* C14's case: the server said success, set no sessionid, and prepareSession
\* has returned; a session file is named.
C14_Witness ==
    /\ login.thrown = "no-session-cookie"
    /\ cli.sessionFile
    /\ PrepareSessionReturned
    /\ Len(obs.login) = 4

\* C15: the cookie a Fresh Login that returned has made active is csrftoken=t;
\* sessionid=s and nothing else, with s the latest sessionid an answer of this
\* login set, and t the latest csrftoken cookie an answer set or, when none
\* set one, the token of the identity JSON body; it stays the active cookie.
C15_CookieIsTokenAndSession ==
    /\ []((login.returned /\ spc \in {"save", "v3"}) =>
            /\ ACTIVE_COOKIE.kind = "login"
            /\ ACTIVE_COOKIE.s = login.seen.sessionid
            /\ ACTIVE_COOKIE.s # 0
            /\ ACTIVE_COOKIE.t = (IF login.seen.csrftoken # 0 THEN login.seen.csrftoken
                                  ELSE login.seen.body)
            /\ ACTIVE_COOKIE.t # 0
            /\ ~ACTIVE_COOKIE.extra)
    /\ [][login.returned => ACTIVE_COOKIE' = ACTIVE_COOKIE]_vars

\* C15's case: the token came from the JSON body, the precheck answer then set
\* a csrftoken cookie and a first sessionid, and the login answer a second.
C15_Witness ==
    /\ login.returned
    /\ login.seen = [csrftoken |-> 3, sessionid |-> 2, body |-> 2, other |-> FALSE,
                     bad |-> FALSE]
    /\ ACTIVE_COOKIE = Ck("login", 3, 2)

\* C19: in a sampling download, once the limiter has reached its limit the
\* attempt cannot fail: the stream goes on or the call finalizes, with no
\* failed attempt counted, no new attempt and no further request; the
\* finalizing step after the limiter's cancellation removes the partial file
\* and leaves its bytes in the destination (unless the rename failed, and then
\* the copy or the unlink) and returns 'downloaded'. A sampling stream that is left before the
\* limit is reached, and not by its normal end, counts one failed attempt,
\* followed by the next attempt while attempt < maxRetries and by the error
\* otherwise.
C19_LimitCancelIsSuccess ==
    /\ [][(pc = "stream" /\ sampleBytes > 0 /\ strm.hit)
           => /\ pc' \in {"stream", "finalize"}
              /\ hist'.failed = hist.failed
              /\ attempt' = attempt
              /\ net' = net
              /\ result' = result]_vars
    /\ [][(pc = "finalize" /\ hist.cancelled)
           => /\ pc' = "idle"
              /\ result' = "downloaded"
              /\ hist'.failed = hist.failed
              /\ net' = net
              /\ (part' = NoFile \/ (hist'.renameFailed /\ part' = part))
              /\ (final' = File(part.data) \/ (hist'.renameFailed /\ final' = final))]_vars
    /\ [](hist.cancelled => (sampleBytes > 0 /\ pc \in {"finalize", "idle"}))
    /\ [][(pc = "stream" /\ sampleBytes > 0 /\ ~strm.hit /\ pc' \notin {"stream", "finalize"})
           => /\ hist'.failed = hist.failed + 1
              /\ ~hist'.cancelled
              /\ IF attempt < maxRetries
                 THEN pc' = "attempt" /\ attempt' = attempt + 1 /\ result' = result
                 ELSE pc' = "idle" /\ result' = "error"]_vars

\* C19's case: a sample of two bytes of a larger resource; the first attempt's
\* stream failed after one byte had reached the partial file, the second was
\* cancelled by the limiter and the call returned 'downloaded'.
C19_Witness ==
    /\ Returned
    /\ result = "downloaded"
    /\ sampleBytes = 2
    /\ remoteSize = 3
    /\ hist.cancelled
    /\ hist.failed = 1
    /\ hist.part0 = NoFile
    /\ hist.kept = Bytes(0, 1)
    /\ final = File(Bytes(0, 2))

\* C20: a Session Record file that cannot be read or parsed gives no record:
\* step 2 adopts nothing, verifies nothing and goes on; the step that writes the
\* record goes on to the verification of the new cookie whether the file was
\* written or not, with the cookie, the login's outcome and the exit status
\* untouched; and that verification, when it reports an authenticated user,
\* makes prepareSession return the source 'fresh-login'. No run ends inside
\* prepareSession.
C20_RecordFailuresAreSoft ==
    /\ [][(spc = "load" /\ cli.sessionFile /\ disk.fmt = "none")
           => /\ sessionData' = NoRecord
              /\ spc' = "last"
              /\ ACTIVE_COOKIE' = ACTIVE_COOKIE
              /\ exitCode' = -1]_vars
    /\ [](~sessionData.present => spc \notin {"v2a", "v2b"})
    /\ [][spc = "save"
           => /\ spc' = "v3"
              /\ prep' = prep
              /\ ACTIVE_COOKIE' = ACTIVE_COOKIE
              /\ login' = login
              /\ exitCode' = -1]_vars
    /\ [][(spc = "v3" /\ obs'.authed # NullCookie)
           => /\ prep' = [core |-> TRUE, source |-> "fresh-login"]
              /\ obs'.authed = ACTIVE_COOKIE
              /\ exitCode' = -1]_vars
    /\ [](exitCode # -1 => PrepareSessionReturned)

\* C20's case: the record file could not be read, the login went through, the
\* write of the record failed too (the file is still unreadable), and the new
\* cookie verified.
C20_Witness ==
    /\ cli.sessionFile
    /\ disk.fmt = "none"
    /\ obs.reads = 1
    /\ obs.writes = 1
    /\ Len(obs.login) = 4
    /\ prep = [core |-> TRUE, source |-> "fresh-login"]

\* C23 (as claimed): when an attempt of a full download has issued its content
\* GET, the resume offset it used is the size of the partial file on disk (0
\* when there is none).
C23_OffsetIsPartialSize ==
    (pc = "get" /\ sampleBytes = 0) => resumeOffset = StatSize(part)

\* C24 (as claimed): prepareSession has not returned 'no session' with a
\* cookie of the Session Record still active.
C24_FailedStoredCookieCleared ==
    (PrepareSessionReturned /\ prep.source = "none")
        => ACTIVE_COOKIE.kind \notin {"stored_u", "stored_default"}

\* The requests of a Fresh Login, in their order, with and without the
\* identity endpoint.
LoginOrders ==
    {<<"page", "core-data", "check-active-user", "login-authentication">>,
     <<"page", "check-active-user", "login-authentication">>}

\* C25: the login requests sent so far are the first ones of the fixed order,
\* each once; the identity endpoint is asked only by a login whose page set no
\* csrftoken cookie, and the precheck follows the page at once only when it
\* set one; login-authentication is sent only with a token, after
\* check-active-user answered success and get-pass; and once the login has
\* thrown no login request is sent.
C25_LoginStepsInOrder ==
    /\ [](\E order \in LoginOrders : IsPrefix(obs.login, order))
    /\ [][spc' = "csrf" => (spc = "page" /\ login'.store.csrftoken = 0 /\ login'.csrf = 0)]_vars
    /\ [][(spc = "page" /\ spc' = "check")
           => (login'.csrf # 0 /\ login'.csrf = login'.store.csrftoken)]_vars
    /\ [](spc \in {"check", "auth"} => login.csrf # 0)
    /\ [][Len(obs'.login) > Len(obs.login)
           => /\ login.thrown = "none"
              /\ ~login.returned
              /\ (obs'.login[Len(obs'.login)] = "login-authentication"
                    => /\ login.checked = "get-pass"
                       /\ login.csrf # 0
                       /\ obs.login[Len(obs.login)] = "check-active-user")]_vars
    /\ [](login.thrown # "none" => (spc \notin {"page", "csrf", "check", "auth"}))

\* C25's case: the page set no token, the identity endpoint gave one, the
\* precheck did not answer get-pass, and the run ended with these three
\* requests.
C25_Witness ==
    /\ spc = "exit"
    /\ login.thrown = "not-get-pass"
    /\ obs.login = <<"page", "core-data", "check-active-user">>

\* cookieHeader(): the Cookie header of the two POSTs of the login.
cookieHeader == headerString(login.store, login.csrf)

\* C26: when check-active-user or login-authentication is about to be sent,
\* its Cookie header holds, for csrftoken and for sessionid, the value set
\* last by the answers so far of this login (nothing for a name never set),
\* and another cookie exactly when one was set; malformed lines have changed
\* nothing and the login has not thrown because of them.
C26_CookieHeaderAccumulates ==
    /\ [](spc \in {"check", "auth"}
           => /\ cookieHeader.t = login.seen.csrftoken
              /\ cookieHeader.s = login.seen.sessionid
              /\ cookieHeader.extra = login.seen.other
              /\ login.thrown = "none")
    /\ [][(spc = "page" /\ login'.seen.bad) => spc' \in {"csrf", "check"}]_vars

\* C26's case: the page's answer carried malformed lines, a csrftoken and
\* another cookie; the precheck's answer replaced the csrftoken and set a
\* sessionid; login-authentication is about to be sent.
C26_Witness ==
    /\ spc = "auth"
    /\ login.seen = [csrftoken |-> 3, sessionid |-> 1, body |-> 0, other |-> TRUE,
                     bad |-> TRUE]
    /\ cookieHeader = [kind |-> "login", t |-> 3, s |-> 1, extra |-> TRUE]

\* C29 (as claimed): once the probe of a call has reported, the single-byte GET
\* was sent exactly when the HEAD threw, was not ok, or gave no length.
C29_ProbeGetWhenHeadInconclusive ==
    hist.probed # "no"
        => /\ net.head = 1
           /\ (net.probe = 1) = (hist.headFailed \/ hist.probed = "unsized")
           /\ net.probe <= 1

\* C27: an attempt of a full download that starts with no partial file on
\* record and a non-empty destination the pre-flight did not accept. With
\* ranges confirmed by the probe the destination becomes the partial file and
\* the request asks for the bytes from its size on (when the rename fails the
\* attempt starts at 0 as below); from then on no destination exists before
\* the finalizing step. With ranges not confirmed both files stay, the offset
\* is 0, the request has no Range header and the partial file is opened 'w'.
C27_DestinationBecomesPartial ==
    /\ [][(/\ pc = "attempt" /\ pc' = "get"
            /\ sampleBytes = 0 /\ existingTmpSize = 0 /\ existingFinalSize > 0)
           => IF remoteInfo.acceptRanges /\ final' # final
              THEN /\ final' = NoFile
                   /\ part' = final
                   /\ resumeOffset' = StatSize(final)
                   /\ req' = [range |-> "resume", from |-> StatSize(final), last |-> -1]
                   /\ existingFinalSize' = 0
              ELSE /\ final' = final
                   /\ part' = part
                   /\ resumeOffset' = 0
                   /\ req' = NoReq]_vars
    /\ []((/\ pc \in {"attempt", "get", "stream", "finalize"}
            /\ sampleBytes = 0 /\ StatSize(hist.final0) > 0)
           => IF existingFinalSize = 0
              THEN final = NoFile /\ remoteInfo.acceptRanges
              ELSE final = hist.final0)
    /\ []((/\ pc = "stream" /\ sampleBytes = 0 /\ StatSize(hist.final0) > 0
            /\ existingFinalSize > 0 /\ existingTmpSize = 0)
           => (strm.flags = "w" /\ resumeOffset = 0 /\ req = NoReq))
    /\ []((/\ pc \in {"get", "stream"} /\ sampleBytes = 0 /\ existingTmpSize = 0
            /\ existingFinalSize > 0 /\ StatSize(hist.final0) > 0)
           => final = hist.final0)

\* C27's case: the destination held one byte of three and no partial file
\* existed; the probe confirmed ranges, the destination became the partial
\* file and the answer to the request from byte 1 is being appended.
C27_Witness ==
    /\ pc = "stream"
    /\ sampleBytes = 0
    /\ remoteSize = 3
    /\ hist.final0 = File(Bytes(0, 1))
    /\ hist.part0 = NoFile
    /\ remoteInfo.acceptRanges
    /\ final = NoFile
    /\ strm.flags = "a"
    /\ req = [range |-> "resume", from |-> 1, last |-> -1]
    /\ part = File(Bytes(0, 2))

\* C28: the content GET of an attempt asks for bytes 0 to limit-1 when
\* sampling, for the bytes from the offset on when not sampling with an offset
\* above 0, and has no Range header otherwise; the partial file is opened 'a'
\* exactly when the attempt is not sampling and has an offset above 0, and
\* then the answer is a 206 whose body starts at that offset; a file opened
\* 'w' is empty once open; and a write only adds the body's next bytes at the
\* end of the partial file.
C28_RangeAndOpenMode ==
    /\ [](pc \in {"get", "stream"}
           => req = (IF sampleBytes > 0
                     THEN [range |-> "sample", from |-> 0, last |-> sampleBytes - 1]
                     ELSE IF resumeOffset > 0
                          THEN [range |-> "resume", from |-> resumeOffset, last |-> -1]
                          ELSE [range |-> "none", from |-> 0, last |-> -1]))
    /\ [](pc = "stream"
           => strm.flags = (IF sampleBytes = 0 /\ resumeOffset > 0 THEN "a" ELSE "w"))
    /\ [][(pc = "get" /\ pc' = "stream" /\ strm'.flags = "a")
           => /\ sampleBytes = 0
              /\ resumeOffset > 0
              /\ req.range = "resume"
              /\ strm'.lo = resumeOffset
              /\ strm'.hi = remoteSize]_vars
    /\ [][(pc = "stream" /\ ~strm.opened /\ strm'.opened)
           => part' = (IF strm.flags = "a" THEN File(part.data) ELSE File(<<>>))]_vars
    /\ [][(pc = "stream" /\ pc' = "stream" /\ strm.opened /\ part' # part)
           => (strm.pending # <<>> /\ part'.data = part.data \o strm.pending[1])]_vars

\* C28's case: a sample of two bytes while a partial file of three bytes
\* exists: the request asks for bytes 0-1, the 206 answer is written to the
\* partial file opened 'w', now empty.
C28_Witness ==
    /\ pc = "stream"
    /\ sampleBytes = 2
    /\ hist.part0 = File(Bytes(0, 3))
    /\ req = [range |-> "sample", from |-> 0, last |-> 1]
    /\ strm.flags = "w"
    /\ strm.opened
    /\ strm.hi = 2
    /\ part = File(<<>>)

\* The identifier an address is saved under: trimmed and in lower case, or the
\* default key when there is no address.
Identifier(email) ==
    CASE email = "none" -> "default"
      [] email \in {"u", " U "} -> "u"

\* `data` is `existing` (or an empty record when there was none) with the entry
\* of X set to the cookie at the present time, lastUsed X, and nothing else
\* changed; no entry is held under a key that is not an identifier.
SavedAs(existing, data, X, cookie) ==
    LET before == IF existing.present THEN existing ELSE NoRecord
    IN /\ data.present
       /\ data.users[X] = cookie
       /\ data.updated[X] = "now"
       /\ data.lastUsed = X
       /\ \A k \in Keys \ {X} :
             /\ data.users[k] = before.users[k]
             /\ data.updated[k] = before.updated[k]
       /\ \A k \in Keys \ Users : data.users[k] = NullCookie /\ data.updated[k] = "never"

\* C30: saving a login for an address into the record read earlier sets the
\* entry of its identifier (the address trimmed and in lower case, the default
\* key without an address) to the new cookie with a new time and lastUsed to
\* that identifier, holds one entry per identifier, and leaves the entries of
\* the other identifiers as they were, also when the record was upgraded from
\* the legacy shape; what is written to the file is that record.
C30_SaveSetsOneEntry ==
    [][spc = "save" =>
          /\ SavedAs(sessionData, sessionData', Identifier(cli.userEmail), ACTIVE_COOKIE)
          /\ SavedAs(sessionData, Stored(sessionData, "none", ACTIVE_COOKIE),
                     "default", ACTIVE_COOKIE)
          /\ disk' \in {disk, Serialized(sessionData')}]_vars

\* A login for " U " was saved into a record upgraded from the legacy shape: the
\* default entry is the legacy cookie and the login's cookie is under "u".
C30_Witness ==
    /\ spc = "v3"
    /\ cli.userEmail = " U "
    /\ disk.fmt = "legacy"
    /\ sessionData.users["default"] = StoredCookie("default")
    /\ sessionData.updated["default"] = "old"
    /\ sessionData.users["u"] = ACTIVE_COOKIE
    /\ ACTIVE_COOKIE.kind = "login"
    /\ sessionData.updated["u"] = "now"
    /\ sessionData.lastUsed = "u"

\* C31 (as claimed): whenever a call returns 'downloaded' from its finalization,
\* the destination exists and holds the bytes of the partial file and no partial
\* file remains, whatever the rename and the copy did.
C31_DownloadedIsAtDestination ==
    [][pc = "finalize" =>
          /\ result' = "downloaded"
          /\ final' = File(part.data)
          /\ ~part'.ex]_vars

\* C21 (as claimed): a run that collected links and ended well has handed
\* each of them to downloadToFile.
C21_EveryLinkDownloaded ==
    (spc = "exit" /\ exitCode = 0 /\ allLinks > 0) => calls >= allLinks

\* C22: a run that ends with no identity check reporting an authenticated user
\* ends with status 1, before any content request; status 2 is that of an
\* empty chapter list, answered to the one content request of an authenticated
\* run; status 3 is that of an empty link list, after a non-empty chapter list
\* was gone through; and the three diagnostics have these three statuses.
C22_StatusTellsTheCause ==
    /\ []((spc = "exit" /\ obs.authed = NullCookie)
           => (exitCode = 1 /\ obs.content = 0
               /\ obs.diag \in {"no-session", "not-logged-in", "verify-failed"}))
    /\ [](obs.diag \in {"no-session", "not-logged-in", "verify-failed"}
           => (exitCode = 1 /\ obs.authed = NullCookie))
    /\ []((exitCode = 2 \/ obs.diag = "no-chapters")
           => (exitCode = 2 /\ obs.diag = "no-chapters" /\ obs.authed # NullCookie
               /\ obs.content = 1 /\ allLinks = 0))
    /\ []((exitCode = 3 \/ obs.diag = "no-links")
           => (exitCode = 3 /\ obs.diag = "no-links" /\ obs.authed # NullCookie
               /\ obs.content >= 1 /\ units = 0 /\ allLinks = 0 /\ ~obs.manifest))
    /\ [][(spc = "chapters" /\ spc' = "collect") => units' > 0]_vars
    /\ [](spc = "collect" => obs.authed # NullCookie)

\* C22's case: an authenticated run whose chapters held units but no link.
C22_Witness ==
    /\ exitCode = 3
    /\ obs.diag = "no-links"
    /\ obs.content = 1 + MaxUnits
    /\ prep.source = "fresh-login"

\* The step prepareSession goes on with after a verification that gave null.
NextSource(at) ==
    CASE at = "v1" -> "load"
      [] at = "v2a" -> "last"
      [] at = "v2b" -> "cred"
      [] OTHER -> "ensure"

\* C16: no run ends inside prepareSession; and a verification of prepareSession
\* that did not report an authenticated user, a failed request included, is
\* followed by the next step in order (the stored entry of the user, the
\* lastUsed entry, the login) or, after a login, by the return with no core
\* data, with the exit status still unset.
C16_VerificationErrorsAreSoft ==
    /\ [](spc = "exit" => PrepareSessionReturned)
    /\ [][(/\ spc \in {"v1", "v2a", "v2b", "v3"}
            /\ obs'.verifies = obs.verifies + 1
            /\ obs'.authed = NullCookie)
           => /\ exitCode' = -1
              /\ spc' = NextSource(spc)
              /\ prep' = IF spc = "v3" THEN [core |-> FALSE, source |-> "none"] ELSE prep]_vars

\* C16's case: the server answers no request, so the verification of the
\* override cookie and that of the user's stored entry were both aborted by
\* the timer, and prepareSession returned with no session.
C16_Witness ==
    /\ ~answers
    /\ obs.verifies = 2
    /\ prep = [core |-> FALSE, source |-> "none"]
    /\ exitCode = -1

\* This run's login replaced the Session Record file.
RecordWritten ==
    /\ obs.writes > 0
    /\ disk.fmt = "multi"
    /\ disk.users[desiredUserKey].kind = "login"

\* C17 (as claimed): when prepareSession has returned from a run that wrote
\* the Session Record file, the user lastUsed names in the file is one whose
\* cookie was verified as authenticated in that run.
C17_LastUsedWasVerified ==
    (PrepareSessionReturned /\ RecordWritten)
        => /\ disk.lastUsed = desiredUserKey
           /\ prep = [core |-> TRUE, source |-> "fresh-login"]

\* A user and a password are given and no override cookie has verified.
CredentialsNoOverride ==
    /\ desiredUserKey = "u"
    /\ cli.userPassword
    /\ obs.override # "verified"

\* The Session Record file holds an entry for the user.
EntryOnDisk ==
    /\ cli.sessionFile
    /\ readSessionFile(disk).present
    /\ readSessionFile(disk).users["u"] # NullCookie

\* C18: with a user and a password, an entry stored for the user and no
\* verified override cookie. Without forceLogin step 2a adopts the stored
\* cookie and, when its verification reports an authenticated user,
\* prepareSession returns it with the source 'stored-user' and no login
\* request sent. With forceLogin step 2a adopts nothing, no stored cookie is
\* ever active or verified, step 3 starts the login, and prepareSession does
\* not return before a login request was sent.
C18_LoginIffForced ==
    /\ [][(spc = "load" /\ CredentialsNoOverride /\ EntryOnDisk)
           => IF cli.forceLogin
              THEN spc' = "last" /\ ACTIVE_COOKIE' = ACTIVE_COOKIE
              ELSE spc' = "v2a" /\ ACTIVE_COOKIE' = readSessionFile(disk).users["u"]]_vars
    /\ [][(spc = "v2a" /\ CredentialsNoOverride /\ obs'.authed # NullCookie)
           => /\ prep' = [core |-> TRUE, source |-> "stored-user"]
              /\ ACTIVE_COOKIE' = ACTIVE_COOKIE
              /\ obs'.authed = ACTIVE_COOKIE
              /\ obs'.login = <<>>]_vars
    /\ []((CredentialsNoOverride /\ ~cli.forceLogin /\ prep.source = "stored-user")
           => (obs.login = <<>> /\ obs.writes = 0))
    /\ []((CredentialsNoOverride /\ cli.forceLogin)
           => /\ spc \notin {"v2a", "v2b"}
              /\ prep.source \notin {"stored-user", "stored-last"}
              /\ ACTIVE_COOKIE.kind \notin {"stored_u", "stored_default"}
              /\ (PrepareSessionReturned => obs.login # <<>>))
    /\ [][(spc = "cred" /\ CredentialsNoOverride /\ cli.forceLogin) => spc' = "page"]_vars

\* C18's case: forceLogin with an entry stored for the user that the server
\* still accepts, after an override cookie that failed its verification; the
\* login went through, the write of the record failed and left the stored
\* entry, and the new cookie verified.
C18_Witness ==
    /\ cli = [userEmail |-> " U ", userPassword |-> TRUE, sessionFile |-> TRUE,
              forceLogin |-> TRUE]
    /\ obs.override = "failed"
    /\ disk.fmt = "multi"
    /\ disk.users["u"] = StoredCookie("u")
    /\ "stored_u" \in valid
    /\ obs.writes = 1
    /\ Len(obs.login) = 4
    /\ prep = [core |-> TRUE, source |-> "fresh-login"]

\* C12 (as claimed), for prepareSession: every request it waits for is cut by
\* a timer, so it returns, also when the server never answers.
C12_PrepareSessionReturns == <>PrepareSessionReturned

\* The current call is a full download whose destination was, when the call
\* started, non-empty and at least as large as the remote resource.
FullAndComplete ==
    /\ calls >= 1
    /\ sampleBytes = 0
    /\ StatSize(hist.final0) >= remoteSize

\* C7 (as claimed): such a call returns Exists and issues no GET, neither the
\* probe's nor a content GET, whatever the HEAD probe does.
C7_ExistsWithoutAnyGet ==
    FullAndComplete =>
        /\ net.probe = 0
        /\ net.get = 0
        /\ pc = "idle" => result = "exists"

\* C7 (amended): such a call returns Exists without a content GET as soon as
\* its probe reports the remote size; the probe issues its one-byte GET at most
\* once and only after the HEAD threw or was not ok.
C7_ExistsWithoutContentGet ==
    FullAndComplete =>
        /\ net.head <= 1
        /\ net.probe <= 1
        /\ net.probe = 1 => hist.headFailed
        /\ hist.probed = "sized" => (pc = "idle" /\ result = "exists" /\ net.get = 0)
        /\ hist.probed = "no" => (pc \in {"head", "probe"} /\ net.get = 0)

\* C7's case: Exists returned after the HEAD failed and the one-byte GET
\* reported the size.
C7_Witness ==
    /\ FullAndComplete
    /\ Returned
    /\ result = "exists"
    /\ net = [head |-> 1, probe |-> 1, get |-> 0]

\* The destination was, when the current call started, non-empty and (for a
\* full download) at least as large as the remote resource.
Terminal ==
    /\ calls >= 1
    /\ StatSize(hist.final0) > 0
    /\ sampleBytes = 0 => StatSize(hist.final0) >= remoteSize

\* C8 (as claimed): a terminal destination is left as it is and no content
\* request is issued for it, also when the probe cannot report the size.
C8_TerminalUntouched ==
    Terminal => (final = hist.final0 /\ net.get = 0)

\* C8 (amended): a terminal destination is left as it is and no content request
\* is issued for it, unless the call's probe could not report the remote size.
C8_TerminalUntouchedWhenSized ==
    (Terminal /\ hist.probed # "unsized") => (final = hist.final0 /\ net.get = 0)

\* C8's case: a full download found its destination complete and returned.
C8_Witness ==
    /\ Terminal
    /\ sampleBytes = 0
    /\ Returned
    /\ hist.probed = "sized"
    /\ ~hist.headFailed
    /\ final = hist.final0
    /\ StatSize(final) > remoteSize

\* C9 (as claimed), for sampling downloads: once a call has returned Downloaded,
\* the next call with the same arguments issues no request, leaves the
\* destination as it is and returns Exists.
C9_SecondCallIsNoOp ==
    (calls = 2 /\ sampleBytes > 0 /\ hist.firstResult = "downloaded")
    => /\ net = NoNet
       /\ final = hist.firstFinal
       /\ pc = "idle" => result = "exists"

\* C10 (as claimed): a sampling download that returns Downloaded leaves exactly
\* the first min(limit, remote size) bytes of the resource at the destination.
\* Stated for the calls whose finalizing rename succeeded.
C10_SampleIsExactPrefix ==
    (Returned /\ result = "downloaded" /\ sampleBytes > 0 /\ ~hist.renameFailed)
    => final = File(Bytes(0, Min(sampleBytes, remoteSize)))

====
